---- MODULE Spec2Model ----
(***************************************************************************)
(* Model of the emailer package: the configuration loaders and their merge *)
(* (src/emailer/config.py) and the EmailSender dispatcher                  *)
(* (src/emailer/emailer.py).                                               *)
(*                                                                         *)
(* Text is a sequence of one-character strings, so that strip, split,      *)
(* startswith, lower and int() are computed character by character.        *)
(* A Python value is a record [kind, s, n]: a str, an int or None.         *)
(***************************************************************************)
EXTENDS Integers, Sequences, FiniteSets, TLC

\* ------------------------------------------------------------------ bounds

\* Longest .env file (in lines) given to load_from_dotenv on its own.
MaxLines == 2

\* Longest .env file (in lines) given to get_config.
MaxMergeLines == 1

\* ------------------------------------------------------------ Python values

Str(s) == [kind |-> "str", s |-> s, n |-> 0]

Int_(n) == [kind |-> "int", s |-> <<>>, n |-> n]

None == [kind |-> "none", s |-> <<>>, n |-> 0]

\* Truthiness of an os.environ.get result: None and "" are false.
Truthy(v) == v.kind = "str" /\ v.s # <<>>

\* The empty dict.
EmptyDict == [k \in {} |-> None]

\* dict.update: the keys of f overwrite those of c, the other keys of c stay.
DictUpdate(c, f) ==
    [k \in DOMAIN c \cup DOMAIN f |-> IF k \in DOMAIN f THEN f[k] ELSE c[k]]

\* d[k] = v on a dict.
DictSet(d, k, v) == [x \in DOMAIN d \cup {k} |-> IF x = k THEN v ELSE d[x]]

\* ------------------------------------------------------------- str methods

Whitespace == {" ", "\t", "\n", "\r"}

Digits == <<"0", "1", "2", "3", "4", "5", "6", "7", "8", "9">>

IsDigit(c) == \E i \in 1..10 : Digits[i] = c

DigitValue(c) == (CHOOSE i \in 1..10 : Digits[i] = c) - 1

UpperCase ==
    <<"A", "B", "D", "E", "F", "I", "J", "L", "M", "N", "O", "P", "R", "S", "T", "V", "W">>

LowerCase ==
    <<"a", "b", "d", "e", "f", "i", "j", "l", "m", "n", "o", "p", "r", "s", "t", "v", "w">>

\* str.lower on one character.
LowerChar(c) ==
    IF \E i \in 1..Len(UpperCase) : UpperCase[i] = c
    THEN LowerCase[CHOOSE i \in 1..Len(UpperCase) : UpperCase[i] = c]
    ELSE c

\* str.lower
Lower(s) == [i \in 1..Len(s) |-> LowerChar(s[i])]

RECURSIVE LStrip(_)
LStrip(s) == IF s # <<>> /\ Head(s) \in Whitespace THEN LStrip(Tail(s)) ELSE s

RECURSIVE RStrip(_)
RStrip(s) ==
    IF s # <<>> /\ s[Len(s)] \in Whitespace THEN RStrip(SubSeq(s, 1, Len(s) - 1)) ELSE s

\* str.strip
Strip(s) == RStrip(LStrip(s))

\* c in s, for a single character c.
Contains(s, c) == \E i \in 1..Len(s) : s[i] = c

\* s.startswith(p)
StartsWith(s, p) == Len(s) >= Len(p) /\ SubSeq(s, 1, Len(p)) = p

\* s.split(c, 1) for a line that contains c: what precedes and what follows the
\* first c.
Split1(s, c) ==
    LET i == CHOOSE j \in 1..Len(s) : s[j] = c /\ \A h \in 1..(j - 1) : s[h] # c
    IN  <<SubSeq(s, 1, i - 1), SubSeq(s, i + 1, Len(s))>>

RECURSIVE DigitsValue(_, _)
\* The number written by the digits of s, underscores skipped.
DigitsValue(s, acc) ==
    IF s = <<>> THEN acc
    ELSE IF Head(s) = "_" THEN DigitsValue(Tail(s), acc)
    ELSE DigitsValue(Tail(s), 10 * acc + DigitValue(Head(s)))

\* Whether d is a run of digits with single underscores between them.
IsDigitRun(d) ==
    /\ d # <<>>
    /\ IsDigit(d[1])
    /\ IsDigit(d[Len(d)])
    /\ \A i \in 1..Len(d) : IsDigit(d[i]) \/ d[i] = "_"
    /\ \A i \in 1..(Len(d) - 1) : ~(d[i] = "_" /\ d[i + 1] = "_")

\* int(s) on a str: surrounding whitespace, one optional sign and digits;
\* [ok |-> FALSE] stands for ValueError.
PyInt(s) ==
    LET t == Strip(s)
        signed == t # <<>> /\ t[1] \in {"+", "-"}
        d == IF signed THEN Tail(t) ELSE t
    IN  IF IsDigitRun(d)
        THEN [ok |-> TRUE,
              n |-> IF signed /\ t[1] = "-" THEN 0 - DigitsValue(d, 0) ELSE DigitsValue(d, 0)]
        ELSE [ok |-> FALSE, n |-> 0]


\* -------------------------------------------------------------- dict keys

K_email == <<"e", "m", "a", "i", "l">>

K_password == <<"p", "a", "s", "s", "w", "o", "r", "d">>

K_smtp_server == <<"s", "m", "t", "p", "_", "s", "e", "r", "v", "e", "r">>

K_smtp_port == <<"s", "m", "t", "p", "_", "p", "o", "r", "t">>

K_address == <<"a", "d", "d", "r", "e", "s", "s">>

\* A key no loader knows, as a file may define one.
K_foo == <<"f", "o", "o">>

\* --------------------------------------------------------- loader results

\* A loader returned the dict d.
Returned(d) == [raised |-> FALSE, exc |-> "", isDict |-> TRUE, frag |-> d]

\* An exception left the loader.
Raised(e) == [raised |-> TRUE, exc |-> e, isDict |-> FALSE, frag |-> EmptyDict]

\* The smtp_port conversion of the file loaders: int() of the value, and the
\* value left as it is on ValueError.
PortToInt(config) ==
    IF PyInt(config[K_smtp_port].s).ok
    THEN DictSet(config, K_smtp_port, Int_(PyInt(config[K_smtp_port].s).n))
    ELSE config

\* ----------------------------------------------------------- load_from_env

\* The environment: the four variables {prefix}ADDRESS, {prefix}PASSWORD,
\* {prefix}SMTP_SERVER, {prefix}SMTP_PORT, each a str or None (unset).
EnvPort(config, smtp_port) ==
    IF Truthy(smtp_port) /\ PyInt(smtp_port.s).ok
    THEN DictSet(config, K_smtp_port, Int_(PyInt(smtp_port.s).n))
    ELSE config

load_from_env(env) ==
    LET c1 == IF Truthy(env.ADDRESS) THEN DictSet(EmptyDict, K_email, env.ADDRESS) ELSE EmptyDict
        c2 == IF Truthy(env.PASSWORD) THEN DictSet(c1, K_password, env.PASSWORD) ELSE c1
        c3 == IF Truthy(env.SMTP_SERVER) THEN DictSet(c2, K_smtp_server, env.SMTP_SERVER) ELSE c2
    IN  Returned(EnvPort(c3, env.SMTP_PORT))

\* ---------------------------------------------------------- load_from_json

\* A JSON file: state is
\*   "nopath"      no path was given (get_config only),
\*   "missing"     os.path.isfile is false,
\*   "unreadable"  open raises IOError,
\*   "undecodable" the bytes are not text: read raises UnicodeDecodeError,
\*   "malformed"   json.load raises JSONDecodeError,
\*   "scalar"      the top-level value is a number, true, false or null,
\*   "array"       the top-level value is an array of numbers,
\*   "object"      the top-level value is the object obj.
load_from_json(file) ==
    CASE file.state = "missing" -> Returned(EmptyDict)
      [] file.state = "unreadable" -> Returned(EmptyDict)
      [] file.state = "malformed" -> Returned(EmptyDict)
      [] file.state = "undecodable" -> Raised("UnicodeDecodeError")
      [] file.state = "scalar" -> Raised("TypeError")
      [] file.state = "array" ->
            [raised |-> FALSE, exc |-> "", isDict |-> FALSE, frag |-> EmptyDict]
      [] OTHER ->
            IF K_smtp_port \in DOMAIN file.obj /\ file.obj[K_smtp_port].kind = "str"
            THEN Returned(PortToInt(file.obj))
            ELSE Returned(file.obj)

\* ----------------------------------------------------------- load_from_ini

\* An INI file: state is "nopath", "missing", "unreadable" (parser.read skips
\* it), "undecodable" (parser.read raises UnicodeDecodeError), "malformed"
\* (parser.read raises a configparser.Error) or "parsed", with sections the
\* options of each section, all values str.
load_from_ini(file, section) ==
    CASE file.state = "missing" -> Returned(EmptyDict)
      [] file.state = "unreadable" -> Returned(EmptyDict)
      [] file.state = "malformed" -> Returned(EmptyDict)
      [] file.state = "undecodable" -> Raised("UnicodeDecodeError")
      [] OTHER ->
            IF section \in DOMAIN file.sections
            THEN LET config == file.sections[section]
                 IN  IF K_smtp_port \in DOMAIN config
                     THEN Returned(PortToInt(config))
                     ELSE Returned(config)
            ELSE Returned(EmptyDict)

\* -------------------------------------------------------- load_from_dotenv

\* One pass of the loop over the lines of the file: the dict after `line`.
DotenvLineFirstWins(config, line, prefix) ==
    LET l == Strip(line)
    IN  IF l = <<>> \/ StartsWith(l, <<"#">>) THEN config
        ELSE IF ~Contains(l, "=") /\ ~Contains(l, ":") THEN config
        ELSE LET kv == IF Contains(l, "=") THEN Split1(l, "=") ELSE Split1(l, ":")
                 key == kv[1]
                 value == kv[2]
             IN  IF StartsWith(key, prefix)
                 THEN LET stripped == Lower(SubSeq(key, Len(prefix) + 1, Len(key)))
                          config_key == IF stripped = K_address THEN K_email ELSE stripped
                      IN  IF config_key \in DOMAIN config THEN config
                          ELSE DictSet(config, config_key, Str(value))
                 ELSE config

DotenvLine(config, line, prefix) ==
    LET l == Strip(line)
    IN  IF l = <<>> \/ StartsWith(l, <<"#">>) THEN config
        ELSE IF ~Contains(l, "=") /\ ~Contains(l, ":") THEN config
        ELSE LET kv == IF Contains(l, "=") THEN Split1(l, "=") ELSE Split1(l, ":")
                 key == kv[1]
                 value == kv[2]
             IN  IF StartsWith(key, prefix)
                 THEN LET stripped == Lower(SubSeq(key, Len(prefix) + 1, Len(key)))
                          config_key == IF stripped = K_address THEN K_email ELSE stripped
                      IN  DictSet(config, config_key, Str(value))
                 ELSE config

RECURSIVE DotenvLoop(_, _, _)
\* The loop over the lines, first to last, from the dict config.
DotenvLoop(config, lines, prefix) ==
    IF lines = <<>> THEN config
    ELSE DotenvLoop(DotenvLine(config, Head(lines), prefix), Tail(lines), prefix)

\* A .env file: state is "nopath", "missing", "unreadable" (open raises
\* IOError), "undecodable" (iterating the file raises UnicodeDecodeError) or
\* "text", with lines the lines of the file.
load_from_dotenv(file, prefix) ==
    CASE file.state = "missing" -> Returned(EmptyDict)
      [] file.state = "unreadable" -> Returned(EmptyDict)
      [] file.state = "undecodable" -> Raised("UnicodeDecodeError")
      [] OTHER ->
            LET config == DotenvLoop(EmptyDict, file.lines, prefix)
            IN  IF K_smtp_port \in DOMAIN config
                THEN Returned(PortToInt(config))
                ELSE Returned(config)

\* ---------------------------------------------------------------- get_config

\* config.update(r) for a loader result r: an exception of the loader leaves
\* get_config, and so does the TypeError of dict.update on a value that is no
\* mapping. m is [raised, exc, frag], the state of get_config so far.
MergeStepWholesale(m, r) ==
    IF m.raised THEN m
    ELSE IF r.raised THEN [raised |-> TRUE, exc |-> r.exc, frag |-> m.frag]
    ELSE IF ~r.isDict THEN [raised |-> TRUE, exc |-> "TypeError", frag |-> m.frag]
    ELSE [raised |-> FALSE, exc |-> "", frag |-> IF r.frag = EmptyDict THEN m.frag ELSE r.frag]

MergeStep(m, r) ==
    IF m.raised THEN m
    ELSE IF r.raised THEN [raised |-> TRUE, exc |-> r.exc, frag |-> m.frag]
    ELSE IF ~r.isDict THEN [raised |-> TRUE, exc |-> "TypeError", frag |-> m.frag]
    ELSE [raised |-> FALSE, exc |-> "", frag |-> DictUpdate(m.frag, r.frag)]

\* The result of a source that get_config does not read (its path is None, or
\* an exception has left get_config before).
NotRead == [raised |-> FALSE, exc |-> "", isDict |-> TRUE, frag |-> EmptyDict]

\* get_config: INI, then .env, then JSON, then the environment, each read only
\* if its path is given (the environment always).  frags keeps what each
\* loader returned.
get_config(env_prefix, json, ini, dotenv, ini_section, env) ==
    LET m0 == [raised |-> FALSE, exc |-> "", frag |-> EmptyDict]
        rIni == IF ini.state # "nopath" THEN load_from_ini(ini, ini_section) ELSE NotRead
        m1 == MergeStep(m0, rIni)
        rDot == IF dotenv.state # "nopath" /\ ~m1.raised
                THEN load_from_dotenv(dotenv, env_prefix) ELSE NotRead
        m2 == MergeStep(m1, rDot)
        rJson == IF json.state # "nopath" /\ ~m2.raised THEN load_from_json(json) ELSE NotRead
        m3 == MergeStep(m2, rJson)
        rEnv == IF ~m3.raised THEN load_from_env(env) ELSE NotRead
        m4 == MergeStep(m3, rEnv)
    IN  [raised |-> m4.raised, exc |-> m4.exc, frag |-> m4.frag,
         frags |-> [ini |-> rIni, dotenv |-> rDot, json |-> rJson, env |-> rEnv]]

\* ------------------------------------------------------------------ inputs

T_env_addr == <<"e", "@", "x">>

T_json_addr == <<"j", "@", "x">>

T_ini_addr == <<"i", "@", "x">>

T_dot_addr == <<"d", "@", "x">>

T_587 == <<"5", "8", "7">>

T_465 == <<"4", "6", "5">>

T_25 == <<" ", "2", "5">>

T_abc == <<"a", "b", "c">>

T_pw == <<"p", "w">>

T_host == <<"h", "o", "s", "t">>

DefaultPrefix == <<"E", "M", "A", "I", "L", "_">>

\* The environments: ADDRESS unset, empty or set; SMTP_PORT unset, numeric or
\* not; PASSWORD and SMTP_SERVER both unset or both set.
Envs ==
    { [ADDRESS |-> a, PASSWORD |-> ps[1], SMTP_SERVER |-> ps[2], SMTP_PORT |-> p] :
        a \in {None, Str(<<>>), Str(T_env_addr)},
        p \in {None, Str(T_465), Str(T_25), Str(T_abc)},
        ps \in {<<None, None>>, <<Str(T_pw), Str(T_host)>>} }

\* The environments get_config is run in.
MergeEnvs ==
    {e \in Envs : /\ e.SMTP_PORT # Str(T_25)
                  /\ (e.PASSWORD = None \/ (e.ADDRESS = None /\ e.SMTP_PORT = None))}

\* The JSON and INI files get_config is given: one file of each outcome.
MergeStates == {"missing", "undecodable", "scalar", "array", "object", "parsed"}

\* A dict of the keys for which the value is not None.
DictOf(email, port, password, foo) ==
    LET all == [k \in {K_email, K_smtp_port, K_password, K_foo} |->
                  IF k = K_email THEN email ELSE IF k = K_smtp_port THEN port
                  ELSE IF k = K_password THEN password ELSE foo]
    IN  [k \in {x \in DOMAIN all : all[x] # None} |-> all[k]]

JsonFile(state, obj) == [state |-> state, obj |-> obj]

\* The JSON objects: email absent or a string; smtp_port absent, a number, a
\* numeric string or another string; one object with further keys.
JsonObjects ==
    { DictOf(e, p, None, None) :
        e \in {None, Str(T_json_addr)},
        p \in {None, Int_(25), Str(T_587), Str(T_abc)} }
    \cup { DictOf(Str(T_json_addr), None, Str(T_pw), Str(T_abc)) }

JsonFiles ==
    { JsonFile(st, EmptyDict) :
        st \in {"missing", "unreadable", "undecodable", "malformed", "scalar", "array"} }
    \cup { JsonFile("object", o) : o \in JsonObjects }

NoJson == JsonFile("nopath", EmptyDict)

IniFile(state, sections) == [state |-> state, sections |-> sections]

NoSections == [x \in {} |-> EmptyDict]

\* The options of the [email] section: email absent or set; smtp_port absent,
\* numeric or not; one section with further options.
IniOptions ==
    { DictOf(e, p, None, None) :
        e \in {None, Str(T_ini_addr)},
        p \in {None, Str(T_587), Str(T_abc)} }
    \cup { DictOf(Str(T_ini_addr), None, Str(T_pw), Str(T_abc)) }

IniFiles ==
    { IniFile(st, NoSections) : st \in {"missing", "unreadable", "undecodable", "malformed"} }
    \cup { IniFile("parsed", [x \in {"other"} |-> DictOf(Str(T_ini_addr), None, None, None)]) }
    \cup { IniFile("parsed", [x \in {"email"} |-> o]) : o \in IniOptions }

NoIni == IniFile("nopath", NoSections)

DotenvFile(state, lines) == [state |-> state, lines |-> lines]

\* The lines a .env file is made of.
DotenvLines ==
    { <<"E", "M", "A", "I", "L", "_", "A", "D", "D", "R", "E", "S", "S", "=", "x", "@", "y", ".", "c", "o", "m">>,
      <<"F", "O", "O", "=", "b", "a", "r">>,
      <<"#", " ", "E", "M", "A", "I", "L", "_", "A", "D", "D", "R", "E", "S", "S", "=", "c", "@", "x">>,
      <<" ", " ">>,
      <<"E", "M", "A", "I", "L", "_", "S", "M", "T", "P", "_", "P", "O", "R", "T", "=", "5", "8", "7">>,
      <<"E", "M", "A", "I", "L", "_", "S", "M", "T", "P", "_", "P", "O", "R", "T", ":", "a", "b", "c">>,
      <<"E", "M", "A", "I", "L", "_", "A", "D", "D", "R", "E", "S", "S", ":", "z", "@", "w">>,
      <<"n", "o", "s", "e", "p">>,
      <<"E", "M", "A", "I", "L", "_", "P", "A", "S", "S", "W", "O", "R", "D", ":", "a", "=", "b">>,
      <<" ", "E", "M", "A", "I", "L", "_", "E", "M", "A", "I", "L", "=", "q", "@", "r", " ", "\n">> }

\* The lines of the .env files get_config reads.
MergeLines ==
    { <<"E", "M", "A", "I", "L", "_", "A", "D", "D", "R", "E", "S", "S", "=", "d", "@", "x">>,
      <<"E", "M", "A", "I", "L", "_", "S", "M", "T", "P", "_", "P", "O", "R", "T", "=", "5", "8", "7">>,
      <<"E", "M", "A", "I", "L", "_", "S", "M", "T", "P", "_", "P", "O", "R", "T", ":", "a", "b", "c">>,
      <<"F", "O", "O", "=", "b", "a", "r">> }

\* The sequences over S of at most n elements.
SeqUpTo(S, n) == UNION { [1..k -> S] : k \in 0..n }

DotenvFiles ==
    { DotenvFile(st, <<>>) : st \in {"missing", "unreadable", "undecodable"} }
    \cup { DotenvFile("text", ls) : ls \in SeqUpTo(DotenvLines, MaxLines) }

MergeDotenvFiles ==
    { DotenvFile(st, <<>>) : st \in {"missing", "undecodable"} }
    \cup { DotenvFile("text", ls) : ls \in SeqUpTo(MergeLines, MaxMergeLines) }

NoDotenv == DotenvFile("nopath", <<>>)

NoEnv == [ADDRESS |-> None, PASSWORD |-> None, SMTP_SERVER |-> None, SMTP_PORT |-> None]

Prefixes == {DefaultPrefix, <<"F">>}

Sections == {"email", "other"}

\* ------------------------------------------------------------- EmailSender

\* Most send_email calls of one behaviour.
MaxCalls == 2

\* The port of the implicit-SSL transport.
SSL_PORT == 465

\* The default port of the constructor.
DEFAULT_PORT == 587

A_me == <<"m", "e", "@", "x">>

A_a == <<"a", "@", "x">>

A_b == <<"b", "@", "x">>

A_h == <<"h", "@", "x">>

T_subject == <<"H", "i">>

T_subject_addr == <<"R", "e", " ", "h", "@", "x">>

T_body == <<"b", "o", "d", "y">>

\* A recipient argument: a str, a list of str, None, or ("shared") the list
\* object the caller keeps and passes again.
ArgStr(s) == [kind |-> "str", s |-> s, l |-> <<>>]

ArgList(l) == [kind |-> "list", s |-> <<>>, l |-> l]

ArgNone == [kind |-> "none", s |-> <<>>, l |-> <<>>]

ArgShared == [kind |-> "shared", s |-> <<>>, l |-> <<>>]

\* Truthiness of a cc or bcc argument: None, "" and [] are false.
ArgTruthy(a) == (a.kind = "str" /\ a.s # <<>>) \/ (a.kind = "list" /\ a.l # <<>>)

\* [x] for a str x, the list itself for a list.
AsList(a) == IF a.kind = "str" THEN <<a.s>> ELSE a.l

RECURSIVE Join(_)
\* ', '.join(l)
Join(l) ==
    IF l = <<>> THEN <<>>
    ELSE IF Len(l) = 1 THEN l[1]
    ELSE l[1] \o <<",", " ">> \o Join(Tail(l))

\* The files of the file system: a regular file that can be read, a path
\* that does not exist, and a regular file whose open raises PermissionError.
FileState(path) ==
    CASE path.name = "gone.txt" -> "missing"
      [] path.name = "locked.txt" -> "unreadable"
      [] OTHER -> "file"

Path(dir, name) == [dir |-> dir, name |-> name]

\* os.path.basename
Basename(path) == path.name

\* os.path.isfile
IsFile(path) == FileState(path) # "missing"

P_ok == Path("/tmp", "ok.txt")

P_ok2 == Path("/home", "two.txt")

P_gone == Path("/tmp", "gone.txt")

P_locked == Path("/tmp", "locked.txt")

\* An attachments argument: None or a list of paths.
AttNone == [given |-> FALSE, paths |-> <<>>]

AttList(ps) == [given |-> TRUE, paths |-> ps]

\* The header Cc: absent, or its value.
NoHeader == [present |-> FALSE, v |-> <<>>]

Header(v) == [present |-> TRUE, v |-> v]

EmptyMsg ==
    [From |-> <<>>, To |-> <<>>, Subject |-> <<>>, Cc |-> NoHeader, parts |-> <<>>]

BodyPart(body, html) ==
    [type |-> IF html THEN "html" ELSE "plain", name |-> "", content |-> body]

FilePart(path) == [type |-> "application", name |-> Basename(path), content |-> path.name]

RECURSIVE AttachFiles(_, _)
\* The loop over the attachments: a path that is no file is skipped, a file is
\* read and attached, and the exception of a read leaves the loop.
\* st is [parts, raised].
AttachFiles(st, paths) ==
    IF paths = <<>> \/ st.raised THEN st
    ELSE IF ~IsFile(Head(paths)) THEN AttachFiles(st, Tail(paths))
    ELSE IF FileState(Head(paths)) = "unreadable"
         THEN [parts |-> st.parts, raised |-> TRUE]
    ELSE AttachFiles([parts |-> Append(st.parts, FilePart(Head(paths))), raised |-> FALSE],
                     Tail(paths))

\* The recipient list with the bcc addresses added before the cc addresses.
RecipientsBccFirst(list0, a) ==
    list0 \o (IF ArgTruthy(a.bcc) THEN AsList(a.bcc) ELSE <<>>)
          \o (IF ArgTruthy(a.cc) THEN AsList(a.cc) ELSE <<>>)

\* The two to_emails.extend calls: the list after cc and bcc are added.
Recipients(list0, a) ==
    list0 \o (IF ArgTruthy(a.cc) THEN AsList(a.cc) ELSE <<>>)
          \o (IF ArgTruthy(a.bcc) THEN AsList(a.bcc) ELSE <<>>)

HeadersAfterExtend(email, list0, a) ==
    [From |-> email,
     To |-> Join(Recipients(list0, a)),
     Subject |-> a.subject,
     Cc |-> IF ArgTruthy(a.cc) THEN Header(Join(AsList(a.cc))) ELSE NoHeader]

\* Lines 66-74 of send_email: the headers.  list0 is the list to_emails names
\* when the headers are set, before cc and bcc are added to it.
Headers(email, list0, a) ==
    [From |-> email,
     To |-> Join(list0),
     Subject |-> a.subject,
     Cc |-> IF ArgTruthy(a.cc) THEN Header(Join(AsList(a.cc))) ELSE NoHeader]

\* Lines 60-97 of send_email: the recipient list, the message and its parts;
\* raised when reading an attachment raised.
BuildMessage(email, list0, a) ==
    LET h == Headers(email, list0, a)
        body == [parts |-> <<BodyPart(a.body, a.html)>>, raised |-> FALSE]
        att == IF a.attachments.given THEN AttachFiles(body, a.attachments.paths) ELSE body
    IN  [msg |-> [From |-> h.From, To |-> h.To, Subject |-> h.Subject, Cc |-> h.Cc,
                  parts |-> att.parts],
         to_emails |-> Recipients(list0, a),
         raised |-> att.raised]

\* int(self.smtp_port)
PortInt(port) == IF port.kind = "int" THEN [ok |-> TRUE, n |-> port.n] ELSE PyInt(port.s)

\* The transport of the sender: implicit SSL on port 465.
UsesSSL(port) == PortInt(port).n = SSL_PORT

\* ---------------------------------------------------- send_template_email

\* f"{{{var_name}}}": the placeholder of a variable.
Placeholder(name) == <<"{">> \o name \o <<"}">>

RECURSIVE Replace(_, _, _)
\* s.replace(old, new) for a non-empty old: the occurrences of old found from
\* the left, none overlapping another, each replaced by new.
Replace(s, old, new) ==
    IF Len(s) < Len(old) THEN s
    ELSE IF SubSeq(s, 1, Len(old)) = old
         THEN new \o Replace(SubSeq(s, Len(old) + 1, Len(s)), old, new)
    ELSE <<Head(s)>> \o Replace(Tail(s), old, new)

\* One variable of template_vars.
Var(name, value) == [name |-> name, value |-> value]

RECURSIVE Substitute(_, _)
\* Lines 172-174: the loop over template_vars.items(), in the order of the
\* dict; each replace works on the body the one before left.
Substitute(body, items) ==
    IF items = <<>> THEN body
    ELSE Substitute(Replace(body, Placeholder(Head(items).name), Head(items).value),
                    Tail(items))

\* A call that is not send_template_email has no template.
NoTemplate == [template |-> <<>>, vars |-> <<>>, given |-> <<>>]

\* ------------------------------------------------------------------ inputs

Ports == {Int_(SSL_PORT), Int_(DEFAULT_PORT), Str(T_abc)}

ToArgs == {ArgStr(A_a), ArgList(<<A_a, A_b>>), ArgShared}

CcArgs == {ArgNone, ArgStr(A_b), ArgList(<<>>), ArgList(<<A_b, A_a>>)}

BccArgs == {ArgNone, ArgStr(A_me), ArgList(<<A_h>>), ArgList(<<A_b, A_h>>)}

Subjects == {T_subject, T_subject_addr}

AttArgs ==
    {AttNone, AttList(<<>>), AttList(<<P_ok>>), AttList(<<P_gone>>), AttList(<<P_locked>>),
     AttList(<<P_ok, P_gone>>), AttList(<<P_gone, P_ok>>), AttList(<<P_ok, P_ok2>>),
     AttList(<<P_gone, P_locked>>)}

Args(to, subject, html, attachments, cc, bcc) ==
    [to |-> to, subject |-> subject, body |-> T_body, html |-> html,
     attachments |-> attachments, cc |-> cc, bcc |-> bcc]

\* The calls: every combination of recipients without attachments, every
\* subject with every bcc, and every attachment list for one recipient.
CallArgs ==
    { Args(to, T_subject, FALSE, AttNone, cc, bcc) :
        to \in ToArgs, cc \in CcArgs, bcc \in BccArgs }
    \cup { Args(ArgStr(A_a), su, FALSE, AttNone, ArgNone, bcc) :
        su \in Subjects, bcc \in BccArgs }
    \cup { Args(ArgStr(A_a), T_subject, h, att, ArgNone, ArgNone) :
        h \in BOOLEAN, att \in AttArgs }

\* Templates: a placeholder once, twice, two placeholders, none, and one in
\* braces.
Templates ==
    { <<"H", "i", " ", "{", "n", "}", "!">>,
      <<"{", "n", "}", "{", "n", "}">>,
      <<"{", "a", "}", " ", "{", "b", "}">>,
      <<"n", "o">>,
      <<"{", "{", "a", "}", "}">> }

\* template_vars, as the items of the dict in its order: empty, one variable,
\* two variables in both orders with a value that is the placeholder of the
\* other, and two whose values are plain text.
TemplateVars ==
    { <<>>,
      <<Var(<<"n">>, <<"A", "l">>)>>,
      <<Var(<<"a">>, <<"{", "b", "}">>), Var(<<"b">>, <<"1">>)>>,
      <<Var(<<"b">>, <<"1">>), Var(<<"a">>, <<"{", "b", "}">>)>>,
      <<Var(<<"a">>, <<"b">>), Var(<<"b">>, <<"c">>)>>,
      <<Var(<<"a">>, <<"x">>), Var(<<"b">>, <<"y">>)>> }

\* The other arguments of send_template_email; its html defaults to True.
TemplateArgs ==
    { Args(ArgStr(A_a), T_subject, TRUE, AttNone, ArgNone, ArgNone),
      Args(ArgList(<<A_a, A_b>>), T_subject_addr, FALSE, AttList(<<P_ok>>), ArgStr(A_b),
           ArgList(<<A_h>>)) }

\* The list the caller keeps, as it is before the first call.
CallerList == <<A_a>>

\* ------------------------------------------------------------------- state

\* cfg: the call of the configuration module under way: the operation, its
\* arguments and sources, and what it returned or raised.  loop is the dict of
\* load_from_dotenv when its loop over the lines ends; frags is what each
\* loader gave get_config.
\* sender: the EmailSender (email, smtp_port).
\* rcptList: the caller's own recipient list, passed by reference.
\* call: the arguments of the send_email call under way; tpl is the template,
\*   the variables and (given) the other arguments send_template_email was
\*   called with, entry is the list
\*   to_emails named when the call began, firstConn the connections opened
\*   before it.
\* pc: where send_email is: "idle", "try" (the message is built), "connected",
\*   "ehlo1", "starttls", "ehlo2", "login", "sendmail", "failed" (an exception
\*   is in flight inside the try block), "returned", "raised".
\* msg, to_emails: the message and the recipient list of the call.
\* net: the calls made on the transport in this call, in order.
\* sent: what sendmail was given.
\* conns: every connection opened so far, "open" or "closed".
\* err: the exception in flight or caught.
\* result: "none", "True", "False", or "raised" when an exception left the call.
\* ncalls: the calls made so far.
\* cli: the run of the command-line program: its phase ("none", "sending",
\*   "exited"), its arguments and its exit status.
VARIABLES cfg, sender, rcptList, call, pc, msg, to_emails, net, sent, conns, err, result,
          ncalls, cli

senderVars == <<sender, rcptList, call, pc, msg, to_emails, net, sent, conns, err, result,
                ncalls>>

vars == <<cfg, sender, rcptList, call, pc, msg, to_emails, net, sent, conns, err, result,
          ncalls, cli>>

NoCall ==
    [via |-> "none", args |-> Args(ArgNone, <<>>, FALSE, AttNone, ArgNone, ArgNone),
     tpl |-> NoTemplate, entry |-> <<>>, firstConn |-> 0]

\* The command line of send_email.py.
Argv(to, cc, html, attachment, config_file) ==
    [to |-> to, cc |-> cc, bcc |-> None, html |-> html, attachment |-> attachment,
     config_file |-> config_file]

\* --config-file: None, or the path of a file; json, ini and dotenv are what
\* load_from_json, load_from_ini and load_from_dotenv find in the file.
NoConfigFile == [name |-> <<>>, json |-> NoJson, ini |-> NoIni, dotenv |-> NoDotenv]

ConfigFile(name, json, ini, dotenv) ==
    [name |-> name, json |-> json, ini |-> ini, dotenv |-> dotenv]

\* The program is not running.
CliIdle ==
    [phase |-> "none", status |-> -1, argv |-> Argv(<<>>, None, FALSE, AttNone, NoConfigFile)]

NotSent == [done |-> FALSE, from |-> <<>>, rcpts |-> <<>>, msg |-> EmptyMsg]

\* EmailSender.__init__ with the port given.
InitSender(port) ==
    /\ sender = [email |-> A_me, password |-> T_pw, smtp_server |-> T_host, smtp_port |-> port]
    /\ rcptList = CallerList
    /\ call = NoCall
    /\ pc = "idle"
    /\ msg = EmptyMsg
    /\ to_emails = <<>>
    /\ net = <<>>
    /\ sent = NotSent
    /\ conns = <<>>
    /\ err = ""
    /\ result = "none"
    /\ ncalls = 0


NoFrags == [ini |-> NotRead, dotenv |-> NotRead, json |-> NotRead, env |-> NotRead]

CfgCall(op, prefix, section, env, json, ini, dotenv, r, loop, frags) ==
    [op |-> op, prefix |-> prefix, section |-> section, env |-> env, json |-> json,
     ini |-> ini, dotenv |-> dotenv, raised |-> r.raised, exc |-> r.exc,
     isDict |-> IF r.raised THEN FALSE ELSE r.isDict, frag |-> r.frag,
     loop |-> loop, frags |-> frags]

CfgIdle ==
    CfgCall("none", DefaultPrefix, "email", NoEnv, NoJson, NoIni, NoDotenv, NotRead,
            EmptyDict, NoFrags)

\* No configuration call under way.
InitCfg == cfg = CfgIdle

\* The configuration module on its own, beside a sender that is not used.
InitConfig == InitCfg /\ InitSender(Int_(DEFAULT_PORT)) /\ cli = CliIdle

\* ---------------------------------------------------- configuration calls

CallLoadFromEnv ==
    /\ UNCHANGED <<senderVars, cli>>
    /\ cfg.op = "none"
    /\ \E env \in Envs :
         cfg' = CfgCall("load_from_env", DefaultPrefix, "email", env, NoJson, NoIni, NoDotenv,
                        load_from_env(env), EmptyDict, NoFrags)

CallLoadFromJson ==
    /\ UNCHANGED <<senderVars, cli>>
    /\ cfg.op = "none"
    /\ \E file \in JsonFiles :
         cfg' = CfgCall("load_from_json", DefaultPrefix, "email", NoEnv, file, NoIni, NoDotenv,
                        load_from_json(file), EmptyDict, NoFrags)

CallLoadFromIni ==
    /\ UNCHANGED <<senderVars, cli>>
    /\ cfg.op = "none"
    /\ \E file \in IniFiles, section \in Sections :
         cfg' = CfgCall("load_from_ini", DefaultPrefix, section, NoEnv, NoJson, file, NoDotenv,
                        load_from_ini(file, section), EmptyDict, NoFrags)

CallLoadFromDotenv ==
    /\ UNCHANGED <<senderVars, cli>>
    /\ cfg.op = "none"
    /\ \E file \in DotenvFiles, prefix \in Prefixes :
         cfg' = CfgCall("load_from_dotenv", prefix, "email", NoEnv, NoJson, NoIni, file,
                        load_from_dotenv(file, prefix),
                        IF file.state = "text" THEN DotenvLoop(EmptyDict, file.lines, prefix)
                        ELSE EmptyDict,
                        NoFrags)

CallGetConfig ==
    /\ UNCHANGED <<senderVars, cli>>
    /\ cfg.op = "none"
    /\ \E env \in MergeEnvs,
          json \in {f \in JsonFiles : f.state \in MergeStates} \cup {NoJson},
          ini \in {f \in IniFiles : f.state \in MergeStates} \cup {NoIni},
          dotenv \in MergeDotenvFiles \cup {NoDotenv} :
         LET r == get_config(DefaultPrefix, json, ini, dotenv, "email", env)
         IN  cfg' = CfgCall("get_config", DefaultPrefix, "email", env, json, ini, dotenv,
                            [raised |-> r.raised, exc |-> r.exc, isDict |-> TRUE,
                             frag |-> r.frag],
                            EmptyDict, r.frags)

\* The caller takes the result; the next call starts from nothing.
CfgDone ==
    /\ UNCHANGED <<senderVars, cli>>
    /\ cfg.op # "none"
    /\ cfg' = CfgIdle

NextConfig ==
    \/ CallLoadFromEnv
    \/ CallLoadFromJson
    \/ CallLoadFromIni
    \/ CallLoadFromDotenv
    \/ CallGetConfig
    \/ CfgDone

SpecConfig == InitConfig /\ [][NextConfig]_vars

\* ------------------------------------------------------------ send_email

\* One call on the transport: the operation, the connection, whether it
\* returned, and whether the reply it returned was an error reply.
NetCall(op, conn, ok) == [op |-> op, conn |-> conn, ok |-> ok, refused |-> FALSE]

\* ehlo() returns the reply of the server without raising when the reply is an
\* error: the call returned, and the server announced no extension.
NetRefused(op, conn) == [op |-> op, conn |-> conn, ok |-> TRUE, refused |-> TRUE]

\* The EHLO made last was answered with an error reply, so that the
\* connection has no extension (no STARTTLS, no AUTH).
NoExtensions == net # <<>> /\ net[Len(net)].op = "ehlo" /\ net[Len(net)].refused

\* The connection of the call under way (0 before it is opened).
CurrentConn == IF Len(conns) > call.firstConn THEN Len(conns) ELSE 0

\* send_email of the sender snd up to the try block (lines 60-97), entered
\* directly or through send_html_email or send_template_email.
Begin(snd, via, a, tpl) ==
    LET list0 == IF a.to.kind = "shared" THEN rcptList ELSE AsList(a.to)
        b == BuildMessage(snd.email, list0, a)
    IN  /\ pc \in {"idle", "returned", "raised"}
        /\ ncalls < MaxCalls
        /\ ncalls' = ncalls + 1
        /\ call' = [via |-> via, args |-> a, tpl |-> tpl, entry |-> list0,
                    firstConn |-> Len(conns)]
        /\ rcptList' = IF a.to.kind = "shared" THEN b.to_emails ELSE rcptList
        /\ msg' = b.msg
        /\ to_emails' = b.to_emails
        /\ net' = <<>>
        /\ sent' = NotSent
        /\ pc' = IF b.raised THEN "raised" ELSE "try"
        /\ err' = IF b.raised THEN "PermissionError" ELSE ""
        /\ result' = IF b.raised THEN "raised" ELSE "none"
        /\ UNCHANGED conns

\* A call of a method of the sender that exists.
Enter(via, a, tpl) == Begin(sender, via, a, tpl) /\ UNCHANGED <<cfg, cli, sender>>

SendEmail == \E a \in CallArgs : Enter("send_email", a, NoTemplate)

\* send_html_email: send_email with html=True.
SendHtmlEmail == \E a \in {x \in CallArgs : x.html} : Enter("send_html_email", a, NoTemplate)

\* send_template_email: the variables are substituted in the template and
\* send_email is called with the body that gives and the other arguments.
SendTemplateEmail ==
    \E a \in TemplateArgs, template \in Templates, items \in TemplateVars :
        Enter("send_template_email", [a EXCEPT !.body = Substitute(template, items)],
              [template |-> template, vars |-> items, given |-> <<a>>])

\* An exception raised inside the try block by the transport call op.
Fail(op, e) ==
    /\ net' = Append(net, NetCall(op, CurrentConn, FALSE))
    /\ pc' = "failed"
    /\ err' = e
    /\ UNCHANGED <<cfg, cli, sender, rcptList, call, msg, to_emails, sent, conns, result, ncalls>>

\* server.ehlo() returns an error reply: the statement completes and the next
\* one runs.
Refused(op, next) ==
    /\ net' = Append(net, NetRefused(op, CurrentConn))
    /\ pc' = next
    /\ UNCHANGED <<cfg, cli, sender, rcptList, call, msg, to_emails, sent, conns, err, result,
                   ncalls>>

\* The transport call op returns.
Succeed(op, next) ==
    /\ net' = Append(net, NetCall(op, CurrentConn, TRUE))
    /\ pc' = next
    /\ UNCHANGED <<cfg, cli, sender, rcptList, call, msg, to_emails, sent, conns, err, result,
                   ncalls>>

\* Lines 101-108: int(self.smtp_port), then SMTP_SSL(...) on port 465 and
\* SMTP(...) on any other port.
Connect ==
    /\ pc = "try"
    /\ LET op == IF UsesSSL(sender.smtp_port) THEN "SMTP_SSL" ELSE "SMTP"
       IN  IF ~PortInt(sender.smtp_port).ok
           THEN /\ pc' = "failed"
                /\ err' = "ValueError"
                /\ UNCHANGED <<cfg, cli, sender, rcptList, call, msg, to_emails, net, sent, conns,
                               result, ncalls>>
           ELSE \/ /\ conns' = Append(conns, "open")
                   /\ net' = Append(net, NetCall(op, Len(conns) + 1, TRUE))
                   /\ pc' = "connected"
                   /\ UNCHANGED <<cfg, cli, sender, rcptList, call, msg, to_emails, sent, err,
                                  result, ncalls>>
                \/ Fail(op, "SMTPServerDisconnected")

\* Line 109: server.ehlo()
Ehlo1 ==
    /\ pc = "connected"
    /\ ~UsesSSL(sender.smtp_port)
    /\ \/ Succeed("ehlo", "ehlo1")
       \/ Refused("ehlo", "ehlo1")
       \/ Fail("ehlo", "SMTPServerDisconnected")

\* Line 110: server.starttls(context=context); it raises without sending
\* STARTTLS when the server announced no such extension.
StartTLS ==
    /\ pc = "ehlo1"
    /\ \/ ~NoExtensions /\ Succeed("starttls", "starttls")
       \/ ~NoExtensions /\ Fail("starttls", "SMTPResponseException")
       \/ Fail("starttls", "SMTPNotSupportedError")

\* Line 111: server.ehlo()
Ehlo2 ==
    /\ pc = "starttls"
    /\ \/ Succeed("ehlo", "ehlo2")
       \/ Refused("ehlo", "ehlo2")
       \/ Fail("ehlo", "SMTPServerDisconnected")

BeforeLoginNoTLS(port) == "connected"

\* login called right after the first EHLO of the plaintext connection.
BeforeLoginAfterEhlo1(port) == IF UsesSSL(port) THEN "connected" ELSE "ehlo1"

\* The position from which login is called.
BeforeLogin(port) == IF UsesSSL(port) THEN "connected" ELSE "ehlo2"

\* Lines 105 and 112: server.login(self.email, self.password); it raises
\* before any credential is sent when the server announced no AUTH extension.
Login ==
    /\ pc = BeforeLogin(sender.smtp_port)
    /\ \/ ~NoExtensions /\ Succeed("login", "login")
       \/ /\ ~NoExtensions
          /\ \E e \in {"SMTPAuthenticationError", "SMTPServerDisconnected"} : Fail("login", e)
       \/ Fail("login", "SMTPNotSupportedError")

\* Lines 106 and 113: server.sendmail(self.email, to_emails, msg.as_string())
Sendmail ==
    /\ pc = "login"
    /\ \/ /\ net' = Append(net, NetCall("sendmail", CurrentConn, TRUE))
          /\ sent' = [done |-> TRUE, from |-> sender.email, rcpts |-> to_emails, msg |-> msg]
          /\ pc' = "sendmail"
          /\ UNCHANGED <<cfg, cli, sender, rcptList, call, msg, to_emails, conns, err, result,
                         ncalls>>
       \/ Fail("sendmail", "SMTPRecipientsRefused")

\* The connections with the one of this call closed.
Closed(cs) == [i \in 1..Len(cs) |-> IF i = CurrentConn THEN "closed" ELSE cs[i]]

\* The end of the with block after sendmail: __exit__ sends QUIT and closes
\* the connection; line 114 returns True, unless the reply to QUIT made
\* __exit__ raise, which line 123 catches.
ExitWith ==
    /\ pc = "sendmail"
    /\ conns' = Closed(conns)
    /\ pc' = "returned"
    /\ \/ /\ net' = net \o <<NetCall("quit", CurrentConn, TRUE), NetCall("close", CurrentConn, TRUE)>>
          /\ result' = "True"
          /\ err' = err
       \/ /\ net' = net \o <<NetCall("quit", CurrentConn, FALSE), NetCall("close", CurrentConn, TRUE)>>
          /\ result' = "False"
          /\ err' = "SMTPResponseException"
    /\ UNCHANGED <<cfg, cli, sender, rcptList, call, msg, to_emails, sent, ncalls>>

ExceptReturnTrue ==
    /\ pc = "failed"
    /\ IF CurrentConn # 0
       THEN /\ conns' = Closed(conns)
            /\ net' = net \o <<NetCall("quit", CurrentConn, TRUE), NetCall("close", CurrentConn, TRUE)>>
       ELSE UNCHANGED <<conns, net>>
    /\ pc' = "returned"
    /\ result' = "True"
    /\ UNCHANGED <<cfg, cli, sender, rcptList, call, msg, to_emails, sent, err, ncalls>>

ExceptReturnNoClose ==
    /\ pc = "failed"
    /\ pc' = "returned"
    /\ result' = "False"
    /\ UNCHANGED <<cfg, cli, sender, rcptList, call, msg, to_emails, net, sent, conns, err, ncalls>>

\* An exception leaves the try block: __exit__ sends QUIT and closes the
\* connection if the with block was entered, and the except clauses of lines
\* 115-125 return False.
ExceptReturn ==
    /\ pc = "failed"
    /\ IF CurrentConn # 0
       THEN /\ conns' = Closed(conns)
            /\ net' = net \o <<NetCall("quit", CurrentConn, TRUE), NetCall("close", CurrentConn, TRUE)>>
       ELSE UNCHANGED <<conns, net>>
    /\ pc' = "returned"
    /\ result' = "False"
    /\ UNCHANGED <<cfg, cli, sender, rcptList, call, msg, to_emails, sent, err, ncalls>>

Init == InitCfg /\ cli = CliIdle /\ \E port \in Ports : InitSender(port)

Next ==
    \/ SendEmail
    \/ SendHtmlEmail
    \/ Connect
    \/ Ehlo1
    \/ StartTLS
    \/ Ehlo2
    \/ Login
    \/ Sendmail
    \/ ExitWith
    \/ ExceptReturn

Spec == Init /\ [][Next]_vars

\* The sender driven through send_template_email.
NextTemplate ==
    \/ SendTemplateEmail
    \/ Connect
    \/ Ehlo1
    \/ StartTLS
    \/ Ehlo2
    \/ Login
    \/ Sendmail
    \/ ExitWith
    \/ ExceptReturn

SpecTemplate == Init /\ [][NextTemplate]_vars

\* ------------------------------------------------------------ send_email.py

\* The default smtp_server of the constructor.
T_gmail == <<"s", "m", "t", "p", ".", "g", "m", "a", "i", "l", ".", "c", "o", "m">>

\* Truthiness of a value of the configuration: None, "" and 0 are false.
PyTruthy(v) == (v.kind = "str" /\ v.s # <<>>) \/ (v.kind = "int" /\ v.n # 0)

\* d.get(k)
DictGet(d, k) == IF k \in DOMAIN d THEN d[k] ELSE None

\* s.endswith(p)
EndsWith(s, p) == Len(s) >= Len(p) /\ SubSeq(s, Len(s) - Len(p) + 1, Len(s)) = p

RECURSIVE SplitAll(_, _)
\* s.split(c)
SplitAll(s, c) ==
    IF ~Contains(s, c) THEN <<s>>
    ELSE <<Split1(s, c)[1]>> \o SplitAll(Split1(s, c)[2], c)

\* [email.strip() for email in s.split(",")]
AddressList(s) == LET l == SplitAll(s, ",") IN [i \in 1..Len(l) |-> Strip(l[i])]

\* The get_config call that get_email_config makes for config_file, by the
\* extension of its name; without --config-file, with the .env file beside
\* the script when os.path.isfile finds it (here), and with no file otherwise.
\* called is false for a name with another extension.
ConfigSource(config_file, here) ==
    LET name == Lower(config_file.name)
        Source(called, json, ini, dotenv) ==
            [called |-> called, json |-> json, ini |-> ini, dotenv |-> dotenv]
    IN  IF config_file.name # <<>>
        THEN IF EndsWith(name, <<".", "j", "s", "o", "n">>)
             THEN Source(TRUE, config_file.json, NoIni, NoDotenv)
             ELSE IF EndsWith(name, <<".", "i", "n", "i">>)
             THEN Source(TRUE, NoJson, config_file.ini, NoDotenv)
             ELSE IF EndsWith(name, <<".", "e", "n", "v">>)
             THEN Source(TRUE, NoJson, NoIni, config_file.dotenv)
             ELSE Source(FALSE, NoJson, NoIni, NoDotenv)
        ELSE IF here.state # "missing"
             THEN Source(TRUE, NoJson, NoIni, here)
             ELSE Source(TRUE, NoJson, NoIni, NoDotenv)

\* Line 77 of get_email_config: the configuration has an email and a password.
HasCredentials(config) ==
    PyTruthy(DictGet(config, K_email)) /\ PyTruthy(DictGet(config, K_password))

\* get_email_config: "exit" when it calls sys.exit(1), "raised" when an
\* exception leaves get_config, "config" when it returns the configuration.
get_email_config(config_file, here, env) ==
    LET src == ConfigSource(config_file, here)
        r == get_config(DefaultPrefix, src.json, src.ini, src.dotenv, "email", env)
    IN  [src |-> src, r |-> r,
         outcome |-> IF ~src.called THEN "exit"
                     ELSE IF r.raised THEN "raised"
                     ELSE IF ~HasCredentials(r.frag) THEN "exit"
                     ELSE "config"]

\* The parameters of EmailSender.__init__.
InitParams == {K_email, K_password, K_smtp_server, K_smtp_port}

\* EmailSender(**config) raises TypeError for a key that is no parameter and
\* for a missing email or password.
CanConstruct(config) ==
    /\ DOMAIN config \subseteq InitParams
    /\ {K_email, K_password} \subseteq DOMAIN config

\* EmailSender(**config)
SenderOf(config) ==
    [email |-> config[K_email].s,
     password |-> config[K_password].s,
     smtp_server |-> IF K_smtp_server \in DOMAIN config THEN config[K_smtp_server].s
                     ELSE T_gmail,
     smtp_port |-> IF K_smtp_port \in DOMAIN config THEN config[K_smtp_port]
                   ELSE Int_(DEFAULT_PORT)]

\* Lines 98-111 and 121 of main: the arguments of send_email.
EmailParams(argv) ==
    Args(ArgList(AddressList(argv.to)), T_subject, argv.html,
         IF argv.attachment.given /\ argv.attachment.paths # <<>>
         THEN AttList(argv.attachment.paths) ELSE AttNone,
         IF Truthy(argv.cc) THEN ArgList(AddressList(argv.cc.s)) ELSE ArgNone,
         IF Truthy(argv.bcc) THEN ArgList(AddressList(argv.bcc.s)) ELSE ArgNone)

\* The attachments check with only the first path looked at.
AttachmentsExistFirstOnly(paths) == paths = <<>> \/ IsFile(paths[1])

\* Lines 116-119 of main: every --attachment path is a file.
AttachmentsExist(paths) == \A i \in 1..Len(paths) : IsFile(paths[i])

\* The exit status: sys.exit(1) when send_email returned False, 1 when an
\* exception ended the program, 0 when main returned.
ExitStatus(res) == IF res = "True" THEN 0 ELSE 1

\* The environments of the program: no variable, address and password, the
\* password alone, and the address with the password and port 465.
CliEnvs ==
    { NoEnv,
      [ADDRESS |-> Str(T_env_addr), PASSWORD |-> Str(T_pw), SMTP_SERVER |-> None,
       SMTP_PORT |-> None],
      [ADDRESS |-> None, PASSWORD |-> Str(T_pw), SMTP_SERVER |-> None, SMTP_PORT |-> None],
      [ADDRESS |-> Str(T_env_addr), PASSWORD |-> Str(T_pw), SMTP_SERVER |-> Str(T_host),
       SMTP_PORT |-> Str(T_465)] }

\* The configuration files: no --config-file, JSON files of each outcome
\* (one with an empty password, one with a further key), INI files, .env
\* files, and a name with another extension.
CliConfigFiles ==
    { NoConfigFile }
    \cup { ConfigFile(<<"c", ".", "j", "s", "o", "n">>, f, NoIni, NoDotenv) :
             f \in { JsonFile("missing", EmptyDict), JsonFile("undecodable", EmptyDict),
                     JsonFile("array", EmptyDict),
                     JsonFile("object", DictOf(Str(T_json_addr), None, Str(T_pw), None)),
                     JsonFile("object", DictOf(Str(T_json_addr), Str(T_abc), Str(T_pw), None)),
                     JsonFile("object", DictOf(Str(T_json_addr), None, Str(<<>>), None)),
                     JsonFile("object", DictOf(Str(T_json_addr), None, Str(T_pw), Str(T_abc))) } }
    \cup { ConfigFile(<<"C", ".", "I", "N", "I">>, NoJson, f, NoDotenv) :
             f \in { IniFile("parsed", [x \in {"email"} |->
                                          DictOf(Str(T_ini_addr), Str(T_587), None, None)]),
                     IniFile("parsed", [x \in {"email"} |->
                                          DictOf(Str(T_ini_addr), None, Str(T_pw), Str(T_abc))]) } }
    \cup { ConfigFile(<<"m", "y", ".", "e", "n", "v">>, NoJson, NoIni, f) :
             f \in { DotenvFile("text", <<l>>) : l \in MergeLines } }
    \cup { ConfigFile(<<"c", ".", "e", "n", "v", ".", "t", "x", "t">>, NoJson, NoIni, NoDotenv) }

\* The .env file beside the script: none, one that cannot be decoded, one
\* with an address.
CliDotenvHere ==
    { DotenvFile("missing", <<>>), DotenvFile("undecodable", <<>>),
      DotenvFile("text", <<<<"E", "M", "A", "I", "L", "_", "A", "D", "D", "R", "E", "S", "S", "=",
                            "d", "@", "x">>>>) }

\* The command lines: one or two recipients, --cc, --html and every
\* attachment list with no configuration file; every configuration file with
\* one recipient and no or one missing attachment.
CliArgvs ==
    { Argv(to, cc, h, att, NoConfigFile) :
        to \in {A_a, <<"a", "@", "x", ",", " ", "b", "@", "x">>},
        cc \in {None, Str(A_b)}, h \in BOOLEAN,
        att \in {AttNone, AttList(<<P_ok>>), AttList(<<P_gone>>), AttList(<<P_locked>>),
                 AttList(<<P_ok, P_gone>>), AttList(<<P_ok, P_ok2>>)} }
    \cup { Argv(A_a, None, FALSE, att, f) :
             att \in {AttNone, AttList(<<P_gone>>)}, f \in CliConfigFiles }

\* main up to the try block of send_email: the configuration, the sender, the
\* arguments, the attachments check, and send_email's lines 60-97.  The
\* program ends with status 1 when get_email_config or the attachments check
\* calls sys.exit(1) and when get_config or the constructor raises.
CliMain ==
    /\ cli.phase = "none"
    /\ pc = "idle" /\ ncalls = 0
    /\ \E argv \in CliArgvs, here \in CliDotenvHere, env \in CliEnvs :
       \E c \in {get_email_config(argv.config_file, here, env)} :
         LET exit == [phase |-> "exited", status |-> 1, argv |-> argv]
         IN  /\ cfg' = IF c.src.called
                       THEN CfgCall("get_config", DefaultPrefix, "email", env, c.src.json,
                                    c.src.ini, c.src.dotenv,
                                    [raised |-> c.r.raised, exc |-> c.r.exc, isDict |-> TRUE,
                                     frag |-> c.r.frag],
                                    EmptyDict, c.r.frags)
                       ELSE cfg
             /\ IF \/ c.outcome # "config"
                   \/ ~CanConstruct(c.r.frag)
                THEN cli' = exit /\ UNCHANGED senderVars
                ELSE IF ~AttachmentsExist(argv.attachment.paths)
                THEN /\ cli' = exit
                     /\ sender' = SenderOf(c.r.frag)
                     /\ UNCHANGED <<rcptList, call, pc, msg, to_emails, net, sent, conns, err,
                                    result, ncalls>>
                ELSE /\ cli' = [phase |-> "sending", status |-> -1, argv |-> argv]
                     /\ sender' = SenderOf(c.r.frag)
                     /\ Begin(SenderOf(c.r.frag), "send_email", EmailParams(argv), NoTemplate)

\* Lines 124-130 of main: send_email returned, or an exception left it.
CliExit ==
    /\ cli.phase = "sending"
    /\ pc \in {"returned", "raised"}
    /\ cli' = [cli EXCEPT !.phase = "exited", !.status = ExitStatus(result)]
    /\ UNCHANGED <<cfg, senderVars>>

\* One run of the program.
NextCli ==
    \/ CliMain
    \/ Connect
    \/ Ehlo1
    \/ StartTLS
    \/ Ehlo2
    \/ Login
    \/ Sendmail
    \/ ExitWith
    \/ ExceptReturn
    \/ CliExit

SpecCli == InitConfig /\ [][NextCli]_vars

\* ------------------------------------------------- claims on the loaders

\* What a source gives get_config: the dict of its loader, nothing when its
\* path is not given.
SourceFrag(r, given) == IF given /\ ~r.raised /\ r.isDict THEN r.frag ELSE EmptyDict

FragIni == SourceFrag(load_from_ini(cfg.ini, cfg.section), cfg.ini.state # "nopath")

FragDotenv == SourceFrag(load_from_dotenv(cfg.dotenv, cfg.prefix), cfg.dotenv.state # "nopath")

FragJson == SourceFrag(load_from_json(cfg.json), cfg.json.state # "nopath")

FragEnv == SourceFrag(load_from_env(cfg.env), TRUE)

\* C1: when get_config returns, each key of the result has the value of the
\* highest-priority source that defines it (environment, then JSON, then .env,
\* then INI), a key no source defines is absent, and a key only a lower source
\* defines is kept.
C1_MergePriority ==
    (cfg.op = "get_config" /\ ~cfg.raised) =>
        \A k \in DOMAIN cfg.frag \cup DOMAIN FragIni \cup DOMAIN FragDotenv
                 \cup DOMAIN FragJson \cup DOMAIN FragEnv :
            IF k \in DOMAIN FragEnv THEN k \in DOMAIN cfg.frag /\ cfg.frag[k] = FragEnv[k]
            ELSE IF k \in DOMAIN FragJson THEN k \in DOMAIN cfg.frag /\ cfg.frag[k] = FragJson[k]
            ELSE IF k \in DOMAIN FragDotenv
                 THEN k \in DOMAIN cfg.frag /\ cfg.frag[k] = FragDotenv[k]
            ELSE IF k \in DOMAIN FragIni THEN k \in DOMAIN cfg.frag /\ cfg.frag[k] = FragIni[k]
            ELSE k \notin DOMAIN cfg.frag

\* All four sources define email, each its own, and only the INI file defines
\* smtp_port: the result has the environment's email and the INI file's port.
C1_Witness ==
    /\ cfg.op = "get_config" /\ ~cfg.raised
    /\ K_email \in DOMAIN FragIni /\ K_email \in DOMAIN FragDotenv
    /\ K_email \in DOMAIN FragJson /\ K_email \in DOMAIN FragEnv
    /\ Cardinality({FragIni[K_email], FragDotenv[K_email], FragJson[K_email],
                    FragEnv[K_email]}) = 4
    /\ K_smtp_port \in DOMAIN FragIni /\ K_smtp_port \notin DOMAIN FragDotenv
    /\ K_smtp_port \notin DOMAIN FragJson /\ K_smtp_port \notin DOMAIN FragEnv
    /\ cfg.frag[K_email] = Str(T_env_addr)
    /\ cfg.frag[K_smtp_port] = Int_(587)

\* The smtp_port a source supplies to the loader under way, None when it
\* supplies none.
SuppliedPort ==
    CASE cfg.op = "load_from_env" -> cfg.env.SMTP_PORT
      [] cfg.op = "load_from_json" ->
            IF cfg.json.state = "object" /\ K_smtp_port \in DOMAIN cfg.json.obj
            THEN cfg.json.obj[K_smtp_port] ELSE None
      [] cfg.op = "load_from_ini" ->
            IF cfg.ini.state = "parsed" /\ cfg.section \in DOMAIN cfg.ini.sections
               /\ K_smtp_port \in DOMAIN cfg.ini.sections[cfg.section]
            THEN cfg.ini.sections[cfg.section][K_smtp_port] ELSE None
      [] cfg.op = "load_from_dotenv" ->
            IF K_smtp_port \in DOMAIN cfg.loop THEN cfg.loop[K_smtp_port] ELSE None
      [] OTHER -> None

\* C8: in each of the four loaders a smtp_port given as a numeric string is
\* returned as that integer, and one given as a non-numeric string is absent
\* from the returned fragment.
C8_NumericCoercion ==
    (SuppliedPort.kind = "str" /\ SuppliedPort.s # <<>>) =>
        /\ ~cfg.raised
        /\ IF PyInt(SuppliedPort.s).ok
           THEN /\ K_smtp_port \in DOMAIN cfg.frag
                /\ cfg.frag[K_smtp_port] = Int_(PyInt(SuppliedPort.s).n)
           ELSE K_smtp_port \notin DOMAIN cfg.frag

\* Whether the call under way was given a missing file (or, for load_from_env,
\* an environment with none of the variables).
NothingToLoad ==
    \/ cfg.op = "load_from_json" /\ cfg.json.state = "missing"
    \/ cfg.op = "load_from_ini" /\ cfg.ini.state = "missing"
    \/ cfg.op = "load_from_dotenv" /\ cfg.dotenv.state = "missing"
    \/ cfg.op = "load_from_env" /\ cfg.env = NoEnv

\* C9: no loader raises, whatever the file, nor does get_config; a missing
\* file or an empty environment gives the empty fragment.
C9_LoadersTotal ==
    /\ ~cfg.raised
    /\ NothingToLoad => cfg.frag = EmptyDict

\* The line as load_from_dotenv's description reads it: stripped, KEY is what
\* precedes the first "=" (the first ":" in a line without "="), value what
\* follows it.
ClaimSep(l) == IF \E i \in 1..Len(l) : l[i] = "=" THEN "=" ELSE ":"

ClaimSepAt(l) == CHOOSE i \in 1..Len(l) : l[i] = ClaimSep(l) /\ \A j \in 1..(i - 1) : l[j] # ClaimSep(l)

ClaimKEY(l) == SubSeq(l, 1, ClaimSepAt(l) - 1)

ClaimValue(l) == SubSeq(l, ClaimSepAt(l) + 1, Len(l))

\* The line contributes: not blank, no comment, a separator, and the prefix.
ClaimContributes(line, prefix) ==
    LET l == Strip(line)
    IN  /\ l # <<>>
        /\ l[1] # "#"
        /\ \E i \in 1..Len(l) : l[i] \in {"=", ":"}
        /\ Len(ClaimKEY(l)) >= Len(prefix)
        /\ \A i \in 1..Len(prefix) : ClaimKEY(l)[i] = prefix[i]

\* The key it contributes: the prefix stripped, lower-cased, address -> email.
ClaimKey(line, prefix) ==
    LET K == ClaimKEY(Strip(line))
        low == [i \in 1..(Len(K) - Len(prefix)) |-> LowerChar(K[i + Len(prefix)])]
    IN  IF low = K_address THEN K_email ELSE low

\* The lines of the file under way that contribute key k.
ClaimLinesOf(k) ==
    {i \in 1..Len(cfg.dotenv.lines) :
        /\ ClaimContributes(cfg.dotenv.lines[i], cfg.prefix)
        /\ ClaimKey(cfg.dotenv.lines[i], cfg.prefix) = k}

ClaimKeys ==
    {ClaimKey(cfg.dotenv.lines[i], cfg.prefix) :
        i \in {j \in 1..Len(cfg.dotenv.lines) :
                 ClaimContributes(cfg.dotenv.lines[j], cfg.prefix)}}

SetMax(S) == CHOOSE x \in S : \A y \in S : y <= x

\* C10: load_from_dotenv's loop skips blank lines, comments, lines without
\* separator and keys without the prefix; every other line contributes its key
\* (prefix stripped, lower-cased, address renamed email) with its value, the
\* last line of a key winning; the fragment returned has these keys and, but
\* for smtp_port, these values.
C10_DotenvLines ==
    (cfg.op = "load_from_dotenv" /\ cfg.dotenv.state = "text") =>
        /\ ~cfg.raised
        /\ DOMAIN cfg.loop = ClaimKeys
        /\ \A k \in ClaimKeys :
             cfg.loop[k] = Str(ClaimValue(Strip(cfg.dotenv.lines[SetMax(ClaimLinesOf(k))])))
        /\ DOMAIN cfg.frag = ClaimKeys
        /\ \A k \in ClaimKeys \ {K_smtp_port} : cfg.frag[k] = cfg.loop[k]

T_example_line == <<"E", "M", "A", "I", "L", "_", "A", "D", "D", "R", "E", "S", "S", "=", "x", "@", "y", ".", "c", "o", "m">>

T_example_addr == <<"x", "@", "y", ".", "c", "o", "m">>

\* A file in which EMAIL_ADDRESS is set twice, the example line last, beside a
\* line without the prefix: email is the example's address.
C10_Witness ==
    /\ cfg.op = "load_from_dotenv" /\ cfg.dotenv.state = "text"
    /\ cfg.prefix = DefaultPrefix
    /\ Len(cfg.dotenv.lines) = MaxLines
    /\ cfg.dotenv.lines[Len(cfg.dotenv.lines)] = T_example_line
    /\ \E i \in 1..(Len(cfg.dotenv.lines) - 1) :
         /\ ClaimContributes(cfg.dotenv.lines[i], cfg.prefix)
         /\ ClaimKey(cfg.dotenv.lines[i], cfg.prefix) = K_email
         /\ cfg.dotenv.lines[i] # T_example_line
    /\ cfg.frag = DictSet(EmptyDict, K_email, Str(T_example_addr))

\* The keys of a ConfigFragment, the parameters of EmailSender.__init__.
FragmentKeys == {K_email, K_password, K_smtp_server, K_smtp_port}

\* C13: what a loader or get_config returns is a mapping whose keys are among
\* email, password, smtp_server and smtp_port.
C13_FragmentKeys ==
    (cfg.op # "none" /\ ~cfg.raised) =>
        /\ cfg.isDict
        /\ DOMAIN cfg.frag \subseteq FragmentKeys

\* -------------------------------------------------- claims on send_email

\* x occurs in the text t.
Occurs(x, t) == \E i \in 1..(Len(t) - Len(x) + 1) : SubSeq(t, i, i + Len(x) - 1) = x

\* The elements of a sequence.
Elems(q) == {q[i] : i \in 1..Len(q)}

\* The cc and bcc addresses of the call under way, singletons promoted.
CcList == IF ArgTruthy(call.args.cc) THEN AsList(call.args.cc) ELSE <<>>

BccList == IF ArgTruthy(call.args.bcc) THEN AsList(call.args.bcc) ELSE <<>>

\* The values of the headers of the message that was transmitted.
SentHeaders ==
    {sent.msg.From, sent.msg.To, sent.msg.Subject}
    \cup (IF sent.msg.Cc.present THEN {sent.msg.Cc.v} ELSE {})

\* The attachments of the call under way that do not exist.
MissingAttachments ==
    {i \in 1..Len(call.args.attachments.paths) :
        FileState(call.args.attachments.paths[i]) = "missing"}

\* C2: a call whose attachments list holds a path that does not exist makes no
\* network call and does not return True.
C2_MissingAttachmentFails ==
    (call.via # "none" /\ MissingAttachments # {}) =>
        /\ net = <<>>
        /\ result # "True"
        /\ pc = "returned" => result = "False"

\* C3, as claimed: every bcc address is an envelope recipient, and none occurs
\* in a header value unless it was also given as a primary or cc recipient.
C3_BccOnlyInEnvelope ==
    sent.done =>
        \A b \in Elems(BccList) :
            /\ b \in Elems(sent.rcpts)
            /\ (\E h \in SentHeaders : Occurs(b, h)) =>
                   b \in Elems(call.entry) \cup Elems(CcList)

\* C3, amended: every bcc address is an envelope recipient, and one occurs in
\* a header value only if it occurs in what the caller gave for the headers:
\* the sender's address, the subject, the primary recipients as passed, the cc
\* recipients.
C3_BccNotAddedToHeaders ==
    sent.done =>
        \A b \in Elems(BccList) :
            /\ b \in Elems(sent.rcpts)
            /\ (\E h \in SentHeaders : Occurs(b, h)) =>
                   \/ Occurs(b, sender.email)
                   \/ Occurs(b, call.args.subject)
                   \/ \E p \in Elems(call.entry) \cup Elems(CcList) : Occurs(b, p)

\* A message was transmitted to a bcc address that is in no header, beside a
\* bcc address that is also a cc recipient.
C3_Witness ==
    /\ sent.done
    /\ A_h \in Elems(BccList) /\ A_b \in Elems(BccList) /\ A_b \in Elems(CcList)
    /\ A_h \in Elems(sent.rcpts)
    /\ \A h \in SentHeaders : ~Occurs(A_h, h)
    /\ Occurs(A_b, sent.msg.Cc.v)

\* The calls on the transport that are steps of the session.
SessionOps == {"SMTP_SSL", "SMTP", "ehlo", "starttls", "login", "sendmail"}

\* Whether the step op was made and returned in this call.
Completed(op) == \E i \in 1..Len(net) : net[i].op = op /\ net[i].ok

\* C4: send_email returns True only if connect, the TLS upgrade on a port
\* other than 465, login and sendmail all completed; once a step of the
\* session fails no further step is made and the call returns False.
C4_AllOrNothing ==
    /\ result = "True" =>
         /\ \A i \in 1..Len(net) : net[i].ok
         /\ Completed("SMTP_SSL") \/ (Completed("SMTP") /\ Completed("starttls"))
         /\ sender.smtp_port # Int_(465) => Completed("starttls")
         /\ Completed("login")
         /\ Completed("sendmail")
         /\ sent.done
    /\ \A i \in 1..Len(net) :
         (net[i].op \in SessionOps /\ ~net[i].ok) =>
             /\ \A j \in (i + 1)..Len(net) : net[j].op \notin SessionOps
             /\ result # "True"
             /\ pc = "returned" => result = "False"

\* The server rejected the credentials: False is returned and nothing was
\* transmitted.
C4_Witness ==
    /\ pc = "returned" /\ result = "False"
    /\ err = "SMTPAuthenticationError"
    /\ \E i \in 1..Len(net) : net[i].op = "login" /\ ~net[i].ok
    /\ ~sent.done
    /\ \A i \in 1..Len(net) : net[i].op # "sendmail"

\* C5: no exception leaves send_email or send_html_email.
C5_NoExceptionEscapes == result # "raised" /\ pc # "raised"

\* The session steps of a send, in order, for the sender's port.
ExpectedSteps ==
    IF sender.smtp_port = Int_(465)
    THEN <<"SMTP_SSL", "login", "sendmail">>
    ELSE <<"SMTP", "ehlo", "starttls", "ehlo", "login", "sendmail">>

\* The session steps made so far in this call.
StepsMade == SelectSeq(net, LAMBDA c : c.op \in SessionOps)

\* C6: port 465 opens an implicit-SSL connection and then logs in and sends;
\* any other port opens a plaintext connection and does EHLO, STARTTLS, EHLO,
\* login, sendmail.  The steps made are at any time a prefix of that order, a
\* successful send made them all, each once, and sendmail was given the
\* primary, cc and bcc recipients.
C6_TransportAndOrder ==
    /\ Len(StepsMade) <= Len(ExpectedSteps)
    /\ \A i \in 1..Len(StepsMade) : StepsMade[i].op = ExpectedSteps[i]
    /\ \A i \in 1..(Len(StepsMade) - 1) : StepsMade[i].ok
    /\ result = "True" =>
         /\ Len(StepsMade) = Len(ExpectedSteps)
         /\ \A i \in 1..Len(StepsMade) : StepsMade[i].ok
    /\ sent.done =>
         /\ sent.rcpts = call.entry \o CcList \o BccList
         /\ sent.from = sender.email

\* A send over STARTTLS with cc and bcc recipients returned True.
C6_Witness ==
    /\ result = "True"
    /\ sender.smtp_port = Int_(587)
    /\ CcList # <<>> /\ BccList # <<>>
    /\ Len(sent.rcpts) = Len(call.entry) + Len(CcList) + Len(BccList)
    /\ [i \in 1..Len(StepsMade) |-> StepsMade[i].op]
         = <<"SMTP", "ehlo", "starttls", "ehlo", "login", "sendmail">>

\* The state of the session of the call under way.
SessionState ==
    CASE pc \in {"idle", "try", "raised"} -> "Idle"
      [] pc \in {"connected", "ehlo1"} -> "Connected"
      [] pc \in {"starttls", "ehlo2"} -> "TLSUpgraded"
      [] pc = "login" -> "Authenticated"
      [] pc = "sendmail" -> "Transmitted"
      [] pc = "failed" -> "Failed"
      [] OTHER -> IF result = "True" THEN "Closed" ELSE "Failed"

\* The moves of the session: the path of the claim, TLSUpgraded on a port
\* other than 465 only, and Failed from anywhere; a new call starts at Idle.
SessionMove ==
    \/ SessionState' = SessionState
    \/ SessionState' = "Failed"
    \/ ncalls' = ncalls + 1 /\ SessionState \in {"Idle", "Closed", "Failed"}
         /\ SessionState' = "Idle"
    \/ SessionState = "Idle" /\ SessionState' = "Connected"
    \/ SessionState = "Connected" /\ SessionState' = "TLSUpgraded"
         /\ sender.smtp_port # Int_(465)
    \/ SessionState = "Connected" /\ SessionState' = "Authenticated"
         /\ sender.smtp_port = Int_(465)
    \/ SessionState = "TLSUpgraded" /\ SessionState' = "Authenticated"
    \/ SessionState = "Authenticated" /\ SessionState' = "Transmitted"
    \/ SessionState = "Transmitted" /\ SessionState' = "Closed"

\* When send_email has returned no connection is open; a call opens at most
\* one connection, and every call it makes on the transport is on that one,
\* opened in this call.
ConnectionsOwned ==
    /\ pc \in {"idle", "returned", "raised"} => \A i \in 1..Len(conns) : conns[i] = "closed"
    /\ Len(conns) <= call.firstConn + 1
    /\ Cardinality({i \in 1..Len(conns) : conns[i] = "open"}) <= 1
    /\ \A i \in 1..Len(net) :
         \/ net[i].conn = 0 /\ ~net[i].ok /\ i = 1
         \/ net[i].conn = call.firstConn + 1 /\ net[i].conn = Len(conns)
    /\ \A i \in 1..Len(net) : net[i].op = "close" => i = Len(net) /\ pc = "returned"

\* C7: the session moves Idle, Connected, TLSUpgraded (port other than 465),
\* Authenticated, Transmitted, Closed, or to Failed; a connection that was
\* opened is closed when send_email returns, and each call uses only the one
\* connection it opened.
C7_SessionLifecycle == [][SessionMove]_vars /\ []ConnectionsOwned

\* The second call failed after opening its own connection, and both
\* connections are closed.
C7_Witness ==
    /\ ncalls = 2 /\ pc = "returned" /\ result = "False"
    /\ Len(conns) = 2 /\ conns[1] = "closed" /\ conns[2] = "closed"
    /\ call.firstConn = 1
    /\ net # <<>> /\ net[Len(net)].op = "close" /\ net[Len(net)].conn = 2

\* ------------------------------------------ claims on the recipient lists

\* A recipient argument as a list: a singleton str promoted, None and "" no
\* recipient.
Promoted(a) ==
    CASE a.kind = "str" -> IF a.s = <<>> THEN <<>> ELSE <<a.s>>
      [] a.kind = "list" -> a.l
      [] OTHER -> <<>>

\* C14: To is the comma-joined primary recipients only, Cc is present exactly
\* when cc is not empty and is then the comma-joined cc recipients, and the
\* envelope given to sendmail is the primary, then the cc, then the bcc
\* recipients, none added, dropped or deduplicated.
C14_HeadersAndEnvelope ==
    call.via # "none" =>
        /\ msg.To = Join(call.entry)
        /\ msg.Cc.present <=> Promoted(call.args.cc) # <<>>
        /\ msg.Cc.present => msg.Cc.v = Join(Promoted(call.args.cc))
        /\ to_emails = call.entry \o Promoted(call.args.cc) \o Promoted(call.args.bcc)
        /\ sent.done =>
             /\ sent.rcpts = call.entry \o Promoted(call.args.cc) \o Promoted(call.args.bcc)
             /\ sent.msg.To = msg.To /\ sent.msg.Cc = msg.Cc

\* A message with two primary, two cc and two bcc recipients was transmitted:
\* b@x is in the envelope three times.
C14_Witness ==
    /\ sent.done
    /\ call.args.to = ArgList(<<A_a, A_b>>)
    /\ sent.msg.To = <<"a", "@", "x", ",", " ", "b", "@", "x">>
    /\ sent.msg.Cc = Header(<<"b", "@", "x", ",", " ", "a", "@", "x">>)
    /\ sent.rcpts = <<A_a, A_b, A_b, A_a, A_b, A_h>>

\* C15: send_email leaves the caller's recipient list as it was, so a call
\* that passes the list again has the To header and the envelope of a first
\* call with that list.
C15_SendsIndependent ==
    /\ rcptList = CallerList
    /\ call.args.to.kind = "shared" =>
         /\ msg.To = Join(CallerList)
         /\ to_emails = CallerList \o Promoted(call.args.cc) \o Promoted(call.args.bcc)

\* --------------------------------------------- claims on the credentials

\* The connection is protected before call i of this send: it was opened with
\* SMTP_SSL, or starttls returned on it.
ProtectedBefore(i) ==
    \E j \in 1..(i - 1) : net[j].op \in {"SMTP_SSL", "starttls"} /\ net[j].ok

\* The EHLO calls of this send, in order, as indices of net.
EhloCalls == SelectSeq([i \in 1..Len(net) |-> i], LAMBDA i : net[i].op = "ehlo")

\* No login and no sendmail is called after call i of this send.
NoLoginAfter(i) == \A j \in (i + 1)..Len(net) : net[j].op \notin {"login", "sendmail"}

\* C16, as claimed: login is called only on a protected connection, and after
\* a STARTTLS or an EHLO that failed, by an exception or by an error reply,
\* neither login nor sendmail is called.
C16_NoLoginAfterFailure ==
    /\ \A i \in 1..Len(net) : net[i].op = "login" => ProtectedBefore(i)
    /\ \A i \in 1..Len(net) :
         (net[i].op \in {"starttls", "ehlo"} /\ (~net[i].ok \/ net[i].refused)) =>
             NoLoginAfter(i)

\* C16, amended: login is called only on a protected connection; after a
\* STARTTLS that failed, an EHLO that raised, or a first EHLO answered with an
\* error reply, neither login nor sendmail is called; after a second EHLO
\* answered with an error reply login is called, on the connection STARTTLS
\* protected, and raises, and sendmail is not called.
C16_LoginOnlyProtected ==
    /\ \A i \in 1..Len(net) : net[i].op = "login" => ProtectedBefore(i)
    /\ \A i \in 1..Len(net) :
         (net[i].op \in {"starttls", "ehlo"} /\ ~net[i].ok) => NoLoginAfter(i)
    /\ \A k \in 1..Len(EhloCalls) :
         net[EhloCalls[k]].refused =>
             IF k = 1 THEN NoLoginAfter(EhloCalls[k])
             ELSE \A j \in (EhloCalls[k] + 1)..Len(net) :
                      /\ net[j].op # "sendmail"
                      /\ net[j].op = "login" => ~net[j].ok /\ ProtectedBefore(j)

\* The second EHLO was answered with an error reply: login was called after
\* STARTTLS and raised, nothing was transmitted and False was returned.
C16_Witness ==
    /\ pc = "returned" /\ result = "False" /\ err = "SMTPNotSupportedError"
    /\ Len(EhloCalls) = 2 /\ net[EhloCalls[2]].refused
    /\ \E i \in 1..Len(net) : net[i].op = "starttls" /\ net[i].ok
    /\ \E i \in 1..Len(net) : net[i].op = "login" /\ ~net[i].ok
    /\ ~sent.done

\* --------------------------------------------------- claims on templates

RECURSIVE Simultaneous(_, _)
\* The template with every placeholder of a variable replaced by the value of
\* the variable in one pass from the left: the text put in is not looked at
\* again, and all other text is kept.
Simultaneous(t, items) ==
    IF t = <<>> THEN <<>>
    ELSE LET m == {i \in 1..Len(items) : StartsWith(t, Placeholder(items[i].name))}
         IN  IF m = {} THEN <<Head(t)>> \o Simultaneous(Tail(t), items)
             ELSE LET i == CHOOSE x \in m : TRUE
                  IN  items[i].value
                        \o Simultaneous(SubSeq(t, Len(Placeholder(items[i].name)) + 1, Len(t)),
                                        items)

\* C11: the body send_template_email gives send_email is the template with
\* every placeholder of a variable of template_vars replaced by its value and
\* everything else kept (a placeholder of no variable, and a variable of no
\* placeholder, change nothing); the other arguments are passed as given.
C11_TemplateBody ==
    call.via = "send_template_email" =>
        /\ call.args.body = Simultaneous(call.tpl.template, call.tpl.vars)
        /\ call.args = [call.tpl.given[1] EXCEPT !.body = call.args.body]

\* The items of template_vars in every order.
Orders(items) ==
    { [i \in 1..Len(items) |-> items[p[i]]] : p \in Permutations(1..Len(items)) }

\* C17: the body does not depend on the order in which template_vars is
\* iterated: the value put in for one variable is not scanned for the
\* placeholders of the others.
C17_OrderIndependent ==
    call.via = "send_template_email" =>
        \A items \in Orders(call.tpl.vars) :
            Substitute(call.tpl.template, items) = call.args.body

\* ------------------------------------------- claims on the command line

\* The configuration get_config resolved has a non-empty value for key k.
Resolved(k) ==
    /\ cfg.op = "get_config" /\ ~cfg.raised
    /\ k \in DOMAIN cfg.frag
    /\ cfg.frag[k] \notin {None, Str(<<>>)}

\* Every path given with --attachment exists.
AttachmentsGivenExist ==
    \A i \in 1..Len(cli.argv.attachment.paths) :
        FileState(cli.argv.attachment.paths[i]) # "missing"

\* send_email was called or a connection was opened.
SendAttempted == call.via # "none" \/ net # <<>> \/ conns # <<>>

\* C12: the program attempts no send unless the resolved configuration has a
\* non-empty email and password and every --attachment path exists, and
\* exits with status 1 without a send when a check fails; it exits with
\* status 0 exactly when send_email returned True and with status 1 when
\* send_email returned False.
C12_CliChecks ==
    LET checks == Resolved(K_email) /\ Resolved(K_password) /\ AttachmentsGivenExist
    IN  /\ SendAttempted => cli.phase # "none" /\ checks
        /\ (cli.phase = "exited" /\ ~checks) => cli.status = 1 /\ ~SendAttempted
        /\ cli.phase = "exited" =>
             /\ cli.status \in {0, 1}
             /\ cli.status = 0 <=> result = "True"
             /\ result = "False" => cli.status = 1

\* The program sent a message with two attachments, with the address from
\* the .env file beside the script and the password from the environment,
\* and exited with status 0.
C12_Witness ==
    /\ cli.phase = "exited" /\ cli.status = 0
    /\ result = "True" /\ sent.done
    /\ cli.argv.attachment = AttList(<<P_ok, P_ok2>>)
    /\ cfg.dotenv.state = "text"
    /\ sender.email = <<"d", "@", "x">> /\ sender.password = T_pw
    /\ Len(msg.parts) = 3

====
